---- MODULE Spec2Model ----
(***************************************************************************)
(* Nano-Utils C extension types: SequenceView (src/nanoutils/src/seq_view.c)*)
(* and ModuleProxyBase (src/nanoutils/src/_c_module_proxy.c).              *)
(*                                                                         *)
(* The model is a small CPython heap: every object has a type, a reference *)
(* count and (for a list) its items or (for a view) the object it wraps.   *)
(* `held` counts the references the calling program believes it owns.      *)
(* Handlers of the C sources are operators named as in the sources; they   *)
(* take the heap and return the new heap, the returned PyObject* and the   *)
(* thread's error indicator.                                               *)
(***************************************************************************)
EXTENDS Integers, Sequences, FiniteSets, TLC

VARIABLES heap, held, snap, last, status, proxy, cmp

vars == <<heap, held, snap, last, status, proxy, cmp>>

(***************************** bounds **************************************)
\* longest backing list
MaxLen == 2
\* heap slots (4 belong to the caller's own objects)
MaxObjects == 7
\* references the caller keeps to one view
MaxHeld == 2
\* proxies built in one run
MaxProxies == 2

\* Py_ssize_t, modelled with a narrow width: its largest and smallest value
PY_SSIZE_T_MAX == 3
PY_SSIZE_T_MIN == (-PY_SSIZE_T_MAX) - 1
Vals == {10, 20}
ObjIds == 1..MaxObjects

(************************* values of the C level ***************************)
NULL == 0
None == <<>>
NoExc == <<>>
NullRet == <<"NULL">>
P(id) == <<"obj", id>>
PyLong(n) == <<"int", n>>
PyBool(b) == <<"bool", b>>
Exc(kind, msg) == <<kind, msg>>
MemoryError == Exc("MemoryError", <<>>)

Obj(t, items, sequence, rc) ==
    [t |-> t, items |-> items, sequence |-> sequence, rc |-> rc]
FreeSlot == Obj("free", <<>>, NULL, 0)

FreeIds(h) == {i \in ObjIds : h[i].t = "free"}
Min(S) == CHOOSE x \in S : \A y \in S : x <= y

\* PyObject_GC_New: the next unused slot
PyObject_GC_New(h) == Min(FreeIds(h))

(******************** type slots of the objects' types *********************)
\* tp_as_sequence->sq_item of each type that occurs
sq_item(t) == t \in {"list", "Indexable", "SequenceView"}
sq_length(t) == t \in {"list", "dict", "SequenceView"}
sq_contains(t) == t \in {"list", "dict", "SequenceView"}

\* PySequence_Check: not a dict, and the type has sq_item
PySequence_Check(t) == t # "dict" /\ sq_item(t)

(************************ SequenceView: construction ***********************)
\* faulty variant: the check accepts every object
SequenceView_check_sequence_any(type, t) ==
    [ret |-> 0, exc |-> NoExc]

SequenceView_check_sequence(type, t) ==
    IF ~PySequence_Check(t)
    THEN [ret |-> -1,
          exc |-> Exc("TypeError", <<"%s expected a sequence, not %s", type, t>>)]
    ELSE [ret |-> 0, exc |-> NoExc]

SequenceView_new(h, args, alloc_ok) ==
    IF Len(args) # 1
    THEN [heap |-> h, ret |-> NullRet,
          exc |-> Exc("TypeError", <<"SequenceView() takes exactly one argument">>)]
    ELSE LET sequence == args[1]
             chk == SequenceView_check_sequence("SequenceView", h[sequence].t)
             self == PyObject_GC_New(h)
         IN  IF chk.ret = -1
             THEN [heap |-> h, ret |-> NullRet, exc |-> chk.exc]
             ELSE IF ~alloc_ok
             THEN [heap |-> h, ret |-> NullRet, exc |-> MemoryError]
             ELSE [heap |-> [h EXCEPT ![self] = Obj("SequenceView", <<>>, sequence, 1),
                                      ![sequence].rc = @ + 1],
                   ret |-> P(self), exc |-> NoExc]

(************************ destruction **************************************)
\* tp_dealloc as written (never installed in PySequenceView_Type)
PySequenceView_dealloc(h, pp) ==
    [h EXCEPT ![pp].t = "freed", ![h[pp].sequence].rc = @ - 1]

\* object_dealloc, the slot a type without tp_dealloc inherits: tp_free only
object_dealloc(h, o) == [h EXCEPT ![o].t = "freed"]

\* The slots PySequenceView_Type sets; tp_dealloc is not among them
PySequenceView_Type ==
    [tp_name |-> "SequenceView", tp_new |-> "SequenceView_new",
     tp_dealloc |-> "object_dealloc"]

tp_dealloc(h, o) ==
    IF h[o].t = "SequenceView"
          /\ PySequenceView_Type.tp_dealloc = "PySequenceView_dealloc"
    THEN PySequenceView_dealloc(h, o)
    ELSE object_dealloc(h, o)

Py_DECREF(h, o) ==
    LET h1 == [h EXCEPT ![o].rc = @ - 1]
    IN  IF h1[o].rc = 0 THEN tp_dealloc(h1, o) ELSE h1

(********************* results of a handler call ***************************)
\* what the delegated call on the backing sequence gave
NoCall == [ok |-> TRUE, val |-> <<"none">>, exc |-> NoExc]
BackOk(val) == [ok |-> TRUE, val |-> val, exc |-> NoExc]
BackErr(exc) == [ok |-> FALSE, val |-> NullRet, exc |-> exc]

Res(h, ret, exc, back) ==
    [heap |-> h, ret |-> ret, exc |-> exc, back |-> back, status |-> "running"]

(********************* abstract API on a list object ***********************)
\* first position (0-based) of value in items, -1 when absent
RECURSIVE IndexFrom(_, _, _)
IndexFrom(items, value, i) ==
    IF i > Len(items) THEN -1
    ELSE IF items[i] = value THEN i - 1
    ELSE IndexFrom(items, value, i + 1)

CountOf(items, value) == Cardinality({i \in 1..Len(items) : items[i] = value})

\* PySequence_Length(o): -1 with the error set on failure
PySequence_Length(o, inj) ==
    IF inj # NoExc THEN [ret |-> -1, exc |-> inj]
    ELSE [ret |-> Len(o.items), exc |-> NoExc]

\* PySequence_Contains(o, value): 1, 0, or -1 with the error set
PySequence_Contains(o, value, inj) ==
    IF inj # NoExc THEN [ret |-> -1, exc |-> inj]
    ELSE [ret |-> IF \E i \in 1..Len(o.items) : o.items[i] = value THEN 1 ELSE 0,
          exc |-> NoExc]

\* PySequence_GetItem(o, i): a negative i is counted from the end, then
\* list_item raises IndexError outside 0..len-1
PySequence_GetItem(o, i, inj) ==
    LET n == Len(o.items)
        j == IF i < 0 THEN i + n ELSE i
    IN  IF inj # NoExc THEN [ret |-> NullRet, exc |-> inj]
        ELSE IF j < 0 \/ j >= n
        THEN [ret |-> NullRet,
              exc |-> Exc("IndexError", <<"list index out of range">>)]
        ELSE [ret |-> <<"elem", o.items[j + 1]>>, exc |-> NoExc]

\* PySequence_Index(o, value): -1 with ValueError set when absent
PySequence_Index(o, value, inj) ==
    LET i == IndexFrom(o.items, value, 1)
    IN  IF inj # NoExc THEN [ret |-> -1, exc |-> inj]
        ELSE IF i = -1
        THEN [ret |-> -1,
              exc |-> Exc("ValueError", <<"sequence.index(x): x not in sequence">>)]
        ELSE [ret |-> i, exc |-> NoExc]

\* PySequence_Count(o, value): -1 with the error set on failure
PySequence_Count(o, value, inj) ==
    IF inj # NoExc THEN [ret |-> -1, exc |-> inj]
    ELSE [ret |-> CountOf(o.items, value), exc |-> NoExc]

\* PySlice_AdjustIndices for step 1: clamp one bound into 0..len
AdjustIndex(i, n) ==
    IF i < 0 THEN (IF i + n < 0 THEN 0 ELSE i + n)
    ELSE IF i > n THEN n ELSE i

\* the items list[i1:i2] selects
ListSlice(items, i1, i2) ==
    LET start == AdjustIndex(i1, Len(items))
        stop == AdjustIndex(i2, Len(items))
    IN  IF stop <= start THEN <<>>
        ELSE [k \in 1..(stop - start) |-> items[start + k]]

\* PySequence_GetSlice(o, i1, i2): a new list (reference count 1), or NULL
PySequence_GetSlice(h, o, i1, i2, inj) ==
    LET new == PyObject_GC_New(h)
    IN  IF inj # NoExc THEN [heap |-> h, ret |-> NULL, exc |-> inj]
        ELSE [heap |-> [h EXCEPT ![new] =
                          Obj("list", ListSlice(h[o].items, i1, i2), NULL, 1)],
              ret |-> new, exc |-> NoExc]

\* Py_ssize_t range and the clamp of _PyEval_SliceIndex
SsizeRange == PY_SSIZE_T_MIN..PY_SSIZE_T_MAX
Fits(n) == n \in SsizeRange
ClampSsize(n) ==
    IF n > PY_SSIZE_T_MAX THEN PY_SSIZE_T_MAX
    ELSE IF n < PY_SSIZE_T_MIN THEN PY_SSIZE_T_MIN ELSE n

\* PySlice_Unpack(key, &start, &stop, &step); key = <<"slice", start, stop, step>>,
\* each None or <<n>>.  With a zero step it returns -1 before it writes
\* start and stop, which then hold whatever the caller's stack held (uninit).
PySlice_Unpack(key, uninit) ==
    LET step0 == IF key[4] = None THEN 1 ELSE ClampSsize(key[4][1])
        step == IF step0 < -PY_SSIZE_T_MAX THEN -PY_SSIZE_T_MAX ELSE step0
        start == IF key[2] = None
                 THEN (IF step < 0 THEN PY_SSIZE_T_MAX ELSE 0)
                 ELSE ClampSsize(key[2][1])
        stop == IF key[3] = None
                THEN (IF step < 0 THEN PY_SSIZE_T_MIN ELSE PY_SSIZE_T_MAX)
                ELSE ClampSsize(key[3][1])
    IN  IF step0 = 0
        THEN [ret |-> -1, start |-> uninit[1], stop |-> uninit[2], step |-> 0,
              exc |-> Exc("ValueError", <<"slice step cannot be zero">>)]
        ELSE [ret |-> 0, start |-> start, stop |-> stop, step |-> step,
              exc |-> NoExc]

(************************ SequenceView: reads ******************************)
\* sq_length / sq_contains return a C integer; -1 is the failure
SlotInt(r, back) == IF r.ret = -1 THEN NullRet ELSE PyLong(r.ret)
BackInt(r) == IF r.exc # NoExc THEN BackErr(r.exc) ELSE BackOk(PyLong(r.ret))
BackBool(r) == IF r.exc # NoExc THEN BackErr(r.exc) ELSE BackOk(PyBool(r.ret = 1))
BackObj(r) == IF r.exc # NoExc THEN BackErr(r.exc) ELSE BackOk(r.ret)

\* faulty variant: the length is the one the list had when the view was built
PySequenceView_len_cached(h, pp, inj) ==
    LET r == PySequence_Length(Obj("list", <<10, 20>>, NULL, 1), inj)
    IN  Res(h, SlotInt(r, r), r.exc, BackInt(r))

PySequenceView_len(h, pp, inj) ==
    LET r == PySequence_Length(h[h[pp].sequence], inj)
    IN  Res(h, SlotInt(r, r), r.exc, BackInt(r))

PySequenceView_contains(h, pp, value, inj) ==
    LET r == PySequence_Contains(h[h[pp].sequence], value, inj)
    IN  Res(h, IF r.ret = -1 THEN NullRet ELSE PyBool(r.ret = 1), r.exc, BackBool(r))

\* faulty variant: the new view wraps the sequence of the old one
PySequenceView_getitem_slice_alias(h, pp, key, uninit, alloc_ok, inj, ub) ==
    LET ret == PyObject_GC_New(h)
        sequence == h[pp].sequence
    IN  IF ~alloc_ok THEN Res(h, NullRet, MemoryError, NoCall)
        ELSE Res([h EXCEPT ![ret] = Obj("SequenceView", <<>>, sequence, 1),
                           ![sequence].rc = @ + 1],
                 P(ret), NoExc, BackOk(P(sequence)))

\* ub: what the build does on Py_INCREF(NULL)
PySequenceView_getitem_slice(h, pp, key, uninit, alloc_ok, inj, ub) ==
    LET u == PySlice_Unpack(key, uninit)
        ret == PyObject_GC_New(h)
        h1 == [h EXCEPT ![ret] = Obj("SequenceView", <<>>, NULL, 1)]
        g == PySequence_GetSlice(h1, h[pp].sequence, u.start, u.stop, inj)
        sequence == g.ret
        back == IF g.exc # NoExc THEN BackErr(g.exc) ELSE BackOk(P(sequence))
    IN  IF ~alloc_ok THEN Res(h, NullRet, MemoryError, NoCall)
        ELSE IF sequence = NULL
        THEN [Res(h1, P(ret), g.exc, back) EXCEPT !.status = ub]
        ELSE Res([g.heap EXCEPT ![sequence].rc = @ + 1, ![ret].sequence = sequence],
                 P(ret), u.exc, back)

\* key: <<"int", n>>, <<"slice", start, stop, step>> or <<"str">>
PySequenceView_getitem(h, pp, key, uninit, alloc_ok, inj, ub) ==
    IF key[1] = "int"
    THEN IF ~Fits(key[2])
         THEN Res(h, NullRet,
                  Exc("IndexError", <<"cannot fit 'int' into an index-sized integer">>),
                  NoCall)
         ELSE LET r == PySequence_GetItem(h[h[pp].sequence], key[2], inj)
              IN  Res(h, r.ret, r.exc, BackObj(r))
    ELSE IF key[1] = "slice"
    THEN PySequenceView_getitem_slice(h, pp, key, uninit, alloc_ok, inj, ub)
    ELSE Res(h, NullRet,
             Exc("TypeError", <<"%s indices must be integers or slices, not %.200s",
                                "SequenceView", key[1]>>),
             NoCall)

PySequenceView_index(h, pp, args, inj) ==
    IF Len(args) # 1
    THEN Res(h, NullRet, Exc("TypeError", <<"index() takes exactly one argument">>), NoCall)
    ELSE LET value == args[1]
             r == PySequence_Index(h[h[pp].sequence], value, inj)
         IN  IF r.ret = -1
             THEN Res(h, NullRet,
                      Exc("ValueError", <<"%R is not in %s", value, "SequenceView">>),
                      BackInt(r))
             ELSE Res(h, PyLong(r.ret), NoExc, BackInt(r))

PySequenceView_count(h, pp, args, inj) ==
    IF Len(args) # 1
    THEN Res(h, NullRet,
             Exc("TypeError", <<"SequenceView() takes exactly one argument">>), NoCall)
    ELSE LET value == args[1]
             r == PySequence_Count(h[h[pp].sequence], value, inj)
         IN  Res(h, PyLong(r.ret), r.exc, BackInt(r))

PySequenceView_copy(h, pp) == Res(h, P(pp), NoExc, NoCall)

\* nargs: how many arguments the caller passes ("|O": at most one)
PySequenceView_deepcopy(h, pp, nargs) ==
    IF nargs > 1
    THEN Res(h, NullRet,
             Exc("TypeError", <<"__deepcopy__() takes at most 1 argument">>), NoCall)
    ELSE Res(h, P(pp), NoExc, NoCall)

PySequenceView_reversed(h, pp) == Res(h, NullRet, NoExc, NoCall)

(************************** the calling program ****************************)
\* the caller's own objects: a list, an int, a dict, and an instance of a
\* class that defines __getitem__ only
TheList == 1
TheInt == 2
TheDict == 3
TheIndexable == 4
ClientObjs == {TheList, TheInt, TheDict, TheIndexable}

NoSnap == [from |-> NULL, items |-> <<>>]
Call(op, self, arg, inj, r) ==
    [op |-> op, self |-> self, arg |-> arg, inj |-> inj,
     back |-> r.back, ret |-> r.ret, exc |-> r.exc]
\* no call is waiting for its result to be looked at
NoLast == Call("idle", NULL, <<>>, NoExc, Res(<<>>, <<"none">>, NoExc, NoCall))

\* errors a delegated call on the backing sequence may raise by itself
\* (an element's comparison raising, an allocation failing)
BackErrors ==
    {Exc("TypeError", <<"'<' not supported between instances">>), MemoryError}
Injections == {NoExc} \cup BackErrors

\* what a build may do on undefined behaviour: fault, or run on
UBOutcomes == {"crashed", "running"}

Idle == status = "running" /\ last = NoLast
\* views the caller can call: it holds a reference, the object is alive
Callable(v) == held[v] > 0 /\ heap[v].t = "SequenceView"
\* the reads are modelled on views that wrap a list
ListViews == {v \in ObjIds : Callable(v) /\ heap[v].sequence # NULL
                              /\ heap[heap[v].sequence].t = "list"}
AnyViews == {v \in ObjIds : Callable(v)}

IntKeys == {<<"int", n>> : n \in (PY_SSIZE_T_MIN - 1)..(PY_SSIZE_T_MAX + 1)}
SliceInts == {None} \cup {<<n>> : n \in (PY_SSIZE_T_MIN - 1)..(PY_SSIZE_T_MAX + 1)}
SliceSteps == {None} \cup {<<n>> : n \in {-PY_SSIZE_T_MAX - 2, -1, 0, 1, 2}}
SliceKeys == {<<"slice", a, b, c>> : a \in SliceInts, b \in SliceInts, c \in SliceSteps}
AllKeys == IntKeys \cup SliceKeys \cup {<<"str">>}
FewKeys == {<<"slice", None, None, None>>, <<"slice", <<1>>, None, None>>,
            <<"slice", None, <<-1>>, <<2>>>>, <<"int", 0>>}
Probes == Vals \cup {30}
ProbeArgs == {<<>>} \cup {<<x>> : x \in Probes}

IsSlice(key) == key[1] = "slice"
ZeroStep(key) == IsSlice(key) /\ key[4] # None /\ key[4][1] = 0
\* the values start and stop may hold when PySlice_Unpack left them unwritten
UninitVals == {PY_SSIZE_T_MIN, -1, 0, 1, PY_SSIZE_T_MAX}
UninitFor(key) == IF ZeroStep(key) THEN UninitVals \X UninitVals ELSE {<<0, 0>>}
\* Py_INCREF(NULL) is reached only when the slice of the backing sequence failed
UBFor(key, alloc_ok, inj) ==
    IF IsSlice(key) /\ alloc_ok /\ inj # NoExc THEN UBOutcomes ELSE {"running"}

ClientHeap ==
    [i \in ObjIds |->
       IF i = TheList THEN Obj("list", <<10, 20>>, NULL, 1)
       ELSE IF i = TheInt THEN Obj("int", <<>>, NULL, 1)
       ELSE IF i = TheDict THEN Obj("dict", <<>>, NULL, 1)
       ELSE IF i = TheIndexable THEN Obj("Indexable", <<>>, NULL, 1)
       ELSE FreeSlot]

Init ==
    /\ heap = ClientHeap
    /\ held = [i \in ObjIds |-> IF i \in ClientObjs THEN 1 ELSE 0]
    /\ snap = [i \in ObjIds |-> NoSnap]
    /\ last = NoLast
    /\ status = "running"
    /\ proxy = <<>>
    /\ cmp = <<>>

\* a slice needs two unused slots: the new view and the new list
UsableKeys(keys) ==
    {k \in keys : IsSlice(k) => Cardinality(FreeIds(heap)) >= 2}

\* SequenceView(*args)
Construct ==
    /\ Idle
    /\ FreeIds(heap) # {}
    /\ \E args \in {<<>>} \cup {<<o>> : o \in {c \in ClientObjs : held[c] > 0}},
          alloc_ok \in BOOLEAN :
         LET r == SequenceView_new(heap, args, alloc_ok)
         IN  /\ heap' = r.heap
             /\ held' = IF r.ret # NullRet THEN [held EXCEPT ![r.ret[2]] = 1] ELSE held
             /\ last' = [op |-> "Construct", self |-> NULL, arg |-> args,
                         inj |-> NoExc, back |-> NoCall, ret |-> r.ret, exc |-> r.exc]
    /\ UNCHANGED <<snap, status, proxy, cmp>>

\* view[key]: mp_subscript
Subscript(keys) ==
    /\ Idle
    /\ \E pp \in ListViews, key \in UsableKeys(keys), alloc_ok \in BOOLEAN,
          inj \in Injections :
       \E ub \in UBFor(key, alloc_ok, inj), uninit \in UninitFor(key) :
         LET r == PySequenceView_getitem(heap, pp, key, uninit, alloc_ok, inj, ub)
             made == r.ret # NullRet /\ r.ret[1] = "obj"
             u == PySlice_Unpack(key, uninit)
         IN  /\ heap' = r.heap
             /\ status' = r.status
             /\ held' = IF made THEN [held EXCEPT ![r.ret[2]] = 1] ELSE held
             /\ snap' = IF made /\ r.back.ok
                        THEN [snap EXCEPT ![r.ret[2]] =
                                [from |-> heap[pp].sequence,
                                 items |-> ListSlice(heap[heap[pp].sequence].items,
                                                     u.start, u.stop)]]
                        ELSE snap
             /\ last' = Call(IF IsSlice(key) THEN "GetRange" ELSE "Get",
                             pp, key, inj, r)
    /\ UNCHANGED <<proxy, cmp>>

\* view.__copy__()
Copy ==
    /\ Idle
    /\ \E pp \in AnyViews :
         LET r == PySequenceView_copy(heap, pp)
         IN  /\ held[pp] < MaxHeld
             /\ heap' = r.heap
             /\ held' = [held EXCEPT ![r.ret[2]] = @ + 1]
             /\ last' = Call("Copy", pp, <<>>, NoExc, r)
    /\ UNCHANGED <<snap, status, proxy, cmp>>

\* view.__deepcopy__(memo)
DeepCopy ==
    /\ Idle
    /\ \E pp \in AnyViews, nargs \in 0..2 :
         LET r == PySequenceView_deepcopy(heap, pp, nargs)
         IN  /\ held[pp] < MaxHeld
             /\ heap' = r.heap
             /\ held' = IF r.ret # NullRet THEN [held EXCEPT ![r.ret[2]] = @ + 1] ELSE held
             /\ last' = Call("DeepCopy", pp, <<nargs>>, NoExc, r)
    /\ UNCHANGED <<snap, status, proxy, cmp>>

\* the caller drops one of its references: Py_DECREF
Release ==
    /\ Idle
    /\ \E o \in ObjIds :
         /\ held[o] > 0
         /\ heap[o].t = "SequenceView"
         /\ heap' = Py_DECREF(heap, o)
         /\ held' = [held EXCEPT ![o] = @ - 1]
         /\ last' = [NoLast EXCEPT !.op = "Release", !.self = o]
    /\ UNCHANGED <<snap, status, proxy, cmp>>

\* the caller uses a reference whose object was already destroyed
UseAfterFree ==
    /\ Idle
    /\ \E o \in ObjIds, ub \in UBOutcomes :
         /\ held[o] > 0
         /\ heap[o].t = "freed"
         /\ status' = ub
         /\ last' = [NoLast EXCEPT !.op = "UseAfterFree", !.self = o]
    /\ UNCHANGED <<heap, held, snap, proxy, cmp>>

\* the caller has looked at the result of its last call
Return ==
    /\ status = "running"
    /\ last # NoLast
    /\ last' = NoLast
    /\ UNCHANGED <<heap, held, snap, status, proxy, cmp>>

Next ==
    \/ Construct
    \/ Subscript(FewKeys)
    \/ Copy
    \/ DeepCopy
    \/ Release
    \/ UseAfterFree
    \/ Return

Spec == Init /\ [][Next]_vars

(******************* reads of one view over the caller's list **************)
\* view.__len__()
Length ==
    /\ Idle
    /\ \E pp \in ListViews, inj \in Injections :
         LET r == PySequenceView_len(heap, pp, inj)
         IN  last' = Call("Length", pp, <<>>, inj, r)
    /\ UNCHANGED <<heap, held, snap, status, proxy, cmp>>

\* value in view
Contains ==
    /\ Idle
    /\ \E pp \in ListViews, value \in Probes, inj \in Injections :
         LET r == PySequenceView_contains(heap, pp, value, inj)
         IN  last' = Call("Contains", pp, <<value>>, inj, r)
    /\ UNCHANGED <<heap, held, snap, status, proxy, cmp>>

\* view.index(*args)
Index ==
    /\ Idle
    /\ \E pp \in ListViews, args \in ProbeArgs, inj \in Injections :
         LET r == PySequenceView_index(heap, pp, args, inj)
         IN  last' = Call("Index", pp, args, inj, r)
    /\ UNCHANGED <<heap, held, snap, status, proxy, cmp>>

\* view.count(*args)
Count ==
    /\ Idle
    /\ \E pp \in ListViews, args \in ProbeArgs, inj \in Injections :
         LET r == PySequenceView_count(heap, pp, args, inj)
         IN  last' = Call("Count", pp, args, inj, r)
    /\ UNCHANGED <<heap, held, snap, status, proxy, cmp>>

\* view.__reversed__()
ReverseIterate ==
    /\ Idle
    /\ \E pp \in ListViews :
         LET r == PySequenceView_reversed(heap, pp)
         IN  last' = Call("ReverseIterate", pp, <<>>, NoExc, r)
    /\ UNCHANGED <<heap, held, snap, status, proxy, cmp>>

\* the caller mutates its list through its own reference
Mutate ==
    /\ Idle
    /\ held[TheList] > 0
    /\ heap[TheList].t = "list"
    /\ \E new \in {Append(heap[TheList].items, x) : x \in Vals}
                  \cup {SubSeq(heap[TheList].items, 1, Len(heap[TheList].items) - 1)}
                  \cup {[heap[TheList].items EXCEPT ![i] = x] :
                          i \in 1..Len(heap[TheList].items), x \in Vals} :
         /\ Len(new) <= MaxLen
         /\ new # heap[TheList].items
         /\ heap' = [heap EXCEPT ![TheList].items = new]
    /\ UNCHANGED <<held, snap, last, status, proxy, cmp>>

\* the state after view = SequenceView(the_list)
InitRead ==
    LET r == SequenceView_new(ClientHeap, <<TheList>>, TRUE)
    IN  /\ heap = r.heap
        /\ held = [i \in ObjIds |-> IF i \in ClientObjs \/ P(i) = r.ret THEN 1 ELSE 0]
        /\ snap = [i \in ObjIds |-> NoSnap]
        /\ last = NoLast
        /\ status = "running"
        /\ proxy = <<>>
        /\ cmp = <<>>

NextRead ==
    \/ Length
    \/ Subscript(AllKeys)
    \/ Contains
    \/ Index
    \/ Count
    \/ ReverseIterate
    \/ Mutate
    \/ Return

SpecRead == InitRead /\ [][NextRead]_vars

(***************************** properties **********************************)
ItemsOf(pp) == heap[heap[pp].sequence].items
IsInt(x) == x # None
Reverse(q) == [k \in 1..Len(q) |-> q[Len(q) + 1 - k]]

\* The extended slice S[start:stop:step] as the specification words it:
\* start and stop clamped to the bounds of S (negative values counted from
\* the end), then every step-th element from start up to, excluding, stop.
ClampBound(i, n, step) ==
    LET lo == IF step < 0 THEN -1 ELSE 0
        hi == IF step < 0 THEN n - 1 ELSE n
    IN  IF i < 0 THEN (IF i + n < lo THEN lo ELSE i + n)
        ELSE IF i > hi THEN hi ELSE i
RECURSIVE Walk(_, _, _, _)
Walk(S, k, stop, step) ==
    IF (step > 0 /\ k >= stop) \/ (step < 0 /\ k <= stop) THEN <<>>
    ELSE <<S[k + 1]>> \o Walk(S, k + step, stop, step)
SliceSelects(S, start, stop, step) ==
    Walk(S, ClampBound(start, Len(S), step), ClampBound(stop, Len(S), step), step)

\* a GetRange call with integer bounds and a non-zero step that returned a view
RangeReturned ==
    /\ last.op = "GetRange"
    /\ IsInt(last.arg[2]) /\ IsInt(last.arg[3]) /\ IsInt(last.arg[4])
    /\ last.arg[4][1] # 0
    /\ last.back.ok /\ last.ret # NullRet /\ last.back.val # <<"none">>

\* C1: GetRange(start, stop, step) returns a view of exactly the elements
\* S[start'], S[start'+step], ... before stop' (bounds clamped): a step other
\* than 1 skips elements and a negative step reverses.
C1_RangeSelectsEveryStep ==
    RangeReturned =>
        ItemsOf(last.ret[2]) =
            SliceSelects(ItemsOf(last.self), last.arg[2][1], last.arg[3][1],
                         last.arg[4][1])

\* C4: when the delegated call on the backing sequence fails with kind K and
\* message M, the view's call fails with the same K and M and returns nothing.
C4_BackingErrorsUnchanged ==
    (last.op \in {"Get", "GetRange", "Contains", "Length", "Index", "Count"}
        /\ ~last.back.ok)
    => (last.ret = NullRet /\ last.exc = last.back.exc /\ status = "running")

\* C5: ReverseIterate gives the elements of S last to first, and always gives
\* a result.
C5_ReverseIterateYieldsReversed ==
    last.op = "ReverseIterate" =>
        (last.ret = <<"iter", Reverse(ItemsOf(last.self))>> /\ last.exc = NoExc)

\* C8: the view caches nothing: Length() is the current length of S, Get(i)
\* is the element S holds now at i for -len <= i < len (negative i from the
\* end), and any other integer i fails with IndexError.
C8_ReadsAreLive ==
    /\ (last.op = "Length" /\ last.inj = NoExc)
        => (last.ret = PyLong(Len(ItemsOf(last.self))) /\ last.exc = NoExc)
    /\ (last.op = "Get" /\ last.inj = NoExc /\ last.arg[1] = "int")
        => LET i == last.arg[2]
               n == Len(ItemsOf(last.self))
           IN  IF -n <= i /\ i < n
               THEN /\ last.ret = <<"elem", ItemsOf(last.self)[IF i < 0 THEN n + i + 1
                                                                ELSE i + 1]>>
                    /\ last.exc = NoExc
               ELSE /\ last.ret = NullRet
                    /\ last.exc # NoExc
                    /\ last.exc[1] = "IndexError"

\* a read of the last element after the caller shortened and changed its list
C8_Witness ==
    /\ last.op = "Get" /\ last.inj = NoExc
    /\ last.arg = <<"int", -1>>
    /\ last.self = 5
    /\ heap[TheList].items = <<20, 10>>
    /\ last.ret = <<"elem", 10>>

\* C10: a view GetRange returned wraps an object of its own, and holds the
\* items selected at the call whatever happens to the original list later.
C10_SliceIsSnapshot ==
    \A v \in ObjIds :
        (heap[v].t = "SequenceView" /\ snap[v].from # NULL)
        => /\ heap[v].sequence # snap[v].from
           /\ heap[heap[v].sequence].items = snap[v].items

\* the whole list was sliced, and the caller emptied the list afterwards
C10_Witness ==
    \E v \in ObjIds :
        /\ heap[v].t = "SequenceView" /\ snap[v].from = TheList
        /\ snap[v].items = <<10, 20>>
        /\ heap[TheList].items = <<>>

\* C2: the reference count of a view equals the number of references held to
\* it, so it is not destroyed while somebody still holds it.
C2_ViewCountMatchesHolders ==
    \A v \in ObjIds :
        /\ heap[v].t = "SequenceView" => heap[v].rc = held[v]
        /\ heap[v].t = "freed" => held[v] = 0

\* C3: the reference count of every wrapped object equals the number of its
\* live holders (the caller's references plus the live views wrapping it).
Holders(s) ==
    held[s] + Cardinality({v \in ObjIds : heap[v].t = "SequenceView"
                                           /\ heap[v].sequence = s})
C3_OneSharePerHolder ==
    \A s \in ObjIds :
        heap[s].t \in {"list", "Indexable"} => heap[s].rc = Holders(s)

\* the capability set of the specification: integer index, length, containment
FullCapability(t) == sq_item(t) /\ sq_length(t) /\ sq_contains(t) /\ t # "dict"

Seqs == UNION {[1..n -> Vals] : n \in 0..MaxLen}
Ops == {"<", "<=", "==", "!=", ">", ">="}
NotImplemented == <<"NotImplemented">>
TypeErrorOf(op, v, w) ==
    <<"exc", "TypeError", <<"'%s' not supported between instances of '%.100s' and '%.100s'",
                            op, v.type, w.type>>>>

Py_SwappedOp(op) ==
    CASE op = "<" -> ">" [] op = "<=" -> ">=" [] op = ">" -> "<"
      [] op = ">=" -> "<=" [] OTHER -> op

IntCompare(a, b, op) ==
    CASE op = "<" -> a < b [] op = "<=" -> a <= b [] op = "==" -> a = b
      [] op = "!=" -> a # b [] op = ">" -> a > b [] OTHER -> a >= b

\* list_richcompare and tuple_richcompare: NotImplemented unless both operands
\* have the type; otherwise decided by the first differing item, else by length
SameTypeCompare(type, v, w, op) ==
    IF v.type # type \/ w.type # type THEN NotImplemented
    ELSE LET a == v.items
             b == w.items
             diff == {i \in 1..Len(a) : i <= Len(b) /\ a[i] # b[i]}
         IN  IF diff = {} THEN PyBool(IntCompare(Len(a), Len(b), op))
             ELSE LET i == Min(diff)
                  IN  IF op = "==" THEN PyBool(FALSE)
                      ELSE IF op = "!=" THEN PyBool(TRUE)
                      ELSE PyBool(IntCompare(a[i], b[i], op))

\* faulty variant: the views themselves are compared, by identity
PySequenceView_richcompare_identity(v, w, op) ==
    IF op = "==" THEN PyBool(v.id = w.id)
    ELSE IF op = "!=" THEN PyBool(v.id # w.id)
    ELSE TypeErrorOf(op, v, w)

RECURSIVE PyObject_RichCompare(_, _, _)
PySequenceView_richcompare(v, w, op) ==
    PyObject_RichCompare(v.sequence, w, op)

\* the tp_richcompare slot of v's type
tp_richcompare(v, w, op) ==
    IF v.type = "SequenceView" THEN PySequenceView_richcompare(v, w, op)
    ELSE SameTypeCompare(v.type, v, w, op)

\* do_richcompare: the left operand's slot, then the right operand's slot
\* with the swapped operator, then identity for == and !=, else TypeError
PyObject_RichCompare(v, w, op) ==
    LET r1 == tp_richcompare(v, w, op)
    IN  IF r1 # NotImplemented THEN r1
        ELSE LET r2 == tp_richcompare(w, v, Py_SwappedOp(op))
             IN  IF r2 # NotImplemented THEN r2
                 ELSE IF op = "==" THEN PyBool(v.id = w.id)
                 ELSE IF op = "!=" THEN PyBool(v.id # w.id)
                 ELSE TypeErrorOf(op, v, w)

SeqObj(type, items, id) == [type |-> type, items |-> items, id |-> id]
ViewObj(sequence, id) == [type |-> "SequenceView", sequence |-> sequence, id |-> id]

InitCmp ==
    /\ heap = ClientHeap
    /\ held = [i \in ObjIds |-> IF i \in ClientObjs THEN 1 ELSE 0]
    /\ snap = [i \in ObjIds |-> NoSnap]
    /\ last = NoLast
    /\ status = "running"
    /\ proxy = <<>>
    /\ \E ts \in {"list", "tuple"}, tt \in {"list", "tuple"}, S \in Seqs, T \in Seqs,
          op \in Ops :
         cmp = [S |-> SeqObj(ts, S, 1), T |-> SeqObj(tt, T, 2), op |-> op,
                done |-> FALSE, direct |-> <<>>, viewSeq |-> <<>>, viewView |-> <<>>]

\* S op T, View(S) op T and View(S) op View(T)
Compare ==
    /\ ~cmp.done
    /\ cmp' = [cmp EXCEPT
                 !.done = TRUE,
                 !.direct = PyObject_RichCompare(cmp.S, cmp.T, cmp.op),
                 !.viewSeq = PyObject_RichCompare(ViewObj(cmp.S, 3), cmp.T, cmp.op),
                 !.viewView = PyObject_RichCompare(ViewObj(cmp.S, 3), ViewObj(cmp.T, 4),
                                                   cmp.op)]
    /\ UNCHANGED <<heap, held, snap, last, status, proxy>>

NextCmp == Compare

SpecCmp == InitCmp /\ [][NextCmp]_vars

\* the value of a comparison, or the kind of the error it raised
Outcome(r) == <<r[1], r[2]>>

\* C9: View(S) op T and View(S) op View(T) give what S op T gives, for every
\* operator; two views of equal-valued sequences compare equal.
C9_ComparisonForwarded ==
    cmp.done =>
        /\ Outcome(cmp.viewSeq) = Outcome(cmp.direct)
        /\ Outcome(cmp.viewView) = Outcome(cmp.direct)

\* two distinct views over two distinct, equal-valued lists compared equal
C9_Witness ==
    /\ cmp.done /\ cmp.op = "=="
    /\ cmp.S.type = "list" /\ cmp.T.type = "list"
    /\ cmp.S.items = <<10, 20>> /\ cmp.T.items = <<10, 20>>
    /\ cmp.viewView = PyBool(TRUE)

(************************ ModuleProxyBase **********************************)
\* a proxy: the two fields of PyModuleProxy, and the argument it was built
\* from (kept only to state the properties)
Proxies == 1..Len(proxy)

\* PyModuleProxy_new: the argument is parsed into `arg`; `obj` stays NULL and
\* is what m_self is set to and what Py_INCREF is applied to
PyModuleProxy_new(args, alloc_ok, ub) ==
    LET obj == NULL
    IN  IF Len(args) # 1
        THEN [made |-> FALSE, ret |-> NullRet, status |-> "running",
              exc |-> Exc("TypeError", <<"function takes exactly 1 argument">>)]
        ELSE IF ~alloc_ok
        THEN [made |-> FALSE, ret |-> NullRet, status |-> "running", exc |-> MemoryError]
        ELSE [made |-> TRUE, ret |-> [m_self |-> obj, m_module |-> NULL, arg |-> args[1]],
              status |-> ub, exc |-> NoExc]

\* a, b: <<type, fields>>; the result is Py_True, Py_False or NotImplemented
PyModuleProxy_richcompare(self, other, op) ==
    IF (op # "==" /\ op # "!=") \/ self[1] # other[1]
    THEN NotImplemented
    ELSE LET eq == self[2].m_self = other[2].m_self
         IN  IF op = "==" THEN PyBool(eq) ELSE PyBool(~eq)

InitProxy ==
    /\ heap = ClientHeap
    /\ held = [i \in ObjIds |-> IF i \in ClientObjs THEN 1 ELSE 0]
    /\ snap = [i \in ObjIds |-> NoSnap]
    /\ last = NoLast
    /\ status = "running"
    /\ proxy = <<>>
    /\ cmp = <<>>

\* ModuleProxyBase(*args)
ProxyNew ==
    /\ Idle
    /\ Len(proxy) < MaxProxies
    /\ \E args \in {<<>>} \cup {<<o>> : o \in ClientObjs}, alloc_ok \in BOOLEAN,
          ub \in UBOutcomes :
         LET r == PyModuleProxy_new(args, alloc_ok, ub)
         IN  /\ proxy' = IF r.made THEN Append(proxy, r.ret) ELSE proxy
             /\ status' = r.status
             /\ last' = [NoLast EXCEPT !.op = "ProxyNew", !.arg = args,
                                       !.ret = IF r.made THEN P(Len(proxy) + 1)
                                               ELSE NullRet,
                                       !.exc = r.exc]
    /\ UNCHANGED <<heap, held, snap, cmp>>

\* p op q, and p op o for an object o that is no proxy
ProxyCompare ==
    /\ Idle
    /\ \E p \in Proxies, op \in Ops,
          other \in {<<"ModuleProxyBase", proxy[q], q>> : q \in Proxies}
                    \cup {<<heap[o].t, [m_self |-> NULL], o>> : o \in ClientObjs} :
         last' = [NoLast EXCEPT
                    !.op = "Equals", !.self = p, !.arg = <<op, other[1], other[3]>>,
                    !.ret = PyModuleProxy_richcompare(<<"ModuleProxyBase", proxy[p]>>,
                                                      other, op)]
    /\ UNCHANGED <<heap, held, snap, status, proxy, cmp>>

NextProxy ==
    \/ ProxyNew
    \/ ProxyCompare
    \/ Return

SpecProxy == InitProxy /\ [][NextProxy]_vars

\* C6: a proxy stores the object it was built from, and p.Equals(q) is true
\* exactly when p and q were built from the same object.
C6_EqualsIffSameReferent ==
    /\ \A p \in Proxies : proxy[p].m_self = proxy[p].arg
    /\ (last.op = "Equals" /\ last.arg[1] = "==" /\ last.arg[2] = "ModuleProxyBase")
        => last.ret = PyBool(proxy[last.self].arg = proxy[last.arg[3]].arg)

====
